---- MODULE Spec2Model ----
(***************************************************************************)
(* Model of the Gemini <-> Anthropic converters of                         *)
(* server/computer_use/handlers/gemini:                                    *)
(*   message_converter.py   convert_anthropic_to_gemini_messages and its   *)
(*                          helpers (the outbound direction),              *)
(*   response_converter.py  convert_gemini_to_anthropic_response and the   *)
(*                          tool-call normalisation (the inbound one).     *)
(*                                                                         *)
(* Python values are modelled as follows.  A dict is a function whose      *)
(* domain is its set of keys (a record); a missing key is a key outside    *)
(* DOMAIN.  A list is a sequence.  Where the code tests the type of a      *)
(* value (isinstance, int(), str(), hashing) the value is tagged:          *)
(* [t |-> "str", str |-> s], [t |-> "list", list |-> xs], and so on.      *)
(* Indices are 0-based as in the source; messages[i] is Nth(messages, i).  *)
(***************************************************************************)
EXTENDS Integers, Sequences, FiniteSets, TLC

VARIABLES
    pc,                \* position of the running conversion
    messages,          \* convert_anthropic_to_gemini_messages: the argument
    msg_idx,           \* ... its cursor
    iterations,        \* history: the number of times its loop body has run
    gemini_messages,   \* ... its result list
    src_range,         \* history: the input range each result message came from
    tr_block,          \* _process_tool_result_block: the argument
    tr_result,         \* ... the returned tuple
    response,          \* convert_gemini_to_anthropic_response: the argument
    idx,               \* ... the position in parts
    content_blocks,    \* ... the blocks converted so far
    function_call_count,
    stop_reason,       \* ... the returned stop reason
    fc,                \* convert_function_call: the argument
    converted,         \* ... the block it returns
    reconverted        \* ... the block returned for the invocation in `converted`

convVars == <<messages, msg_idx, iterations, gemini_messages, src_range>>
blockVars == <<tr_block, tr_result>>
respVars == <<response, idx, content_blocks, function_call_count, stop_reason>>
normVars == <<fc, converted, reconverted>>
vars == <<pc, convVars, blockVars, respVars, normVars>>

\* the value of the variables of the functions that are not running
Idle == "idle"

----------------------------------------------------------------------------
(* Python helpers *)

\* dict.get(k, default)
Get(d, k, default) == IF k \in DOMAIN d THEN d[k] ELSE default

\* d[k] = v on a dict
DictSet(d, k, v) == [x \in (DOMAIN d) \cup {k} |-> IF x = k THEN v ELSE d[x]]

\* the empty dict {}
EmptyDict == [x \in {} |-> ""]

\* seq[i] with a 0-based index
Nth(seq, i) == seq[i + 1]

\* tagged values; the payload's field is named after the type, so that values
\* of different types are records over different fields
StrV(s) == [t |-> "str", str |-> s]
IntV(n) == [t |-> "int", int |-> n]
ListV(xs) == [t |-> "list", list |-> xs]
TupleV(xs) == [t |-> "tuple", tuple |-> xs]
DictV(d) == [t |-> "dict", dict |-> d]
NoneV == [t |-> "none"]

\* str(x) of a tagged value
PyStr(x) ==
    CASE x.t = "str" -> x.str
      [] x.t = "int" -> ToString(x.int)
      [] OTHER -> "None"

----------------------------------------------------------------------------
(* message_converter.py *)

\* _convert_content_blocks: the parts of one block (none for a dropped block)
ConvertBlock(block) ==
    LET block_type == Get(block, "type", "")
    IN  CASE block_type = "text" ->
               LET text == Get(block, "text", "")
               IN  IF text # "" THEN << [text |-> text] >> ELSE << >>
          [] block_type = "image" ->
               LET source == Get(block, "source", EmptyDict)
               IN  IF Get(source, "type", "") = "base64"
                   THEN << [inline_data |->
                              [mime_type |-> Get(source, "media_type", "image/png"),
                               data |-> Get(source, "data", "")]] >>
                   ELSE << >>
          [] block_type = "tool_use" ->
               << [function_call |->
                     [name |-> Get(block, "name", ""),
                      args |-> Get(block, "input", EmptyDict)]] >>
          [] OTHER -> << >>

RECURSIVE _convert_content_blocks(_)
_convert_content_blocks(content) ==
    IF content = << >> THEN << >>
    ELSE ConvertBlock(Head(content)) \o _convert_content_blocks(Tail(content))

\* _process_tool_result_block, lines 166-180: the scan of the result's content
\* items; acc = [response_content, image_data], image_data a sequence holding
\* the part, or empty for None
RECURSIVE ScanContent(_, _)
ScanContent(items, acc) ==
    IF items = << >> THEN acc
    ELSE LET content_item == Head(items)
             type == Get(content_item, "type", "")
             source == Get(content_item, "source", EmptyDict)
             next ==
               CASE type = "text" ->
                      [acc EXCEPT !.response_content =
                          DictSet(@, "output", Get(content_item, "text", ""))]
                 [] type = "image" /\ Get(source, "type", "") = "base64" ->
                      [response_content |->
                          DictSet(acc.response_content, "has_screenshot", TRUE),
                       image_data |->
                          << [inline_data |->
                                [mime_type |-> Get(source, "media_type", "image/png"),
                                 data |-> Get(source, "data", "")]] >>]
                 [] OTHER -> acc
         IN  ScanContent(Tail(items), next)

\* _process_tool_result_block: (tool_use_id, response_content, image_data)
_process_tool_result_block(block) ==
    LET tool_use_id == IF Get(block, "tool_use_id", "") # ""
                       THEN block.tool_use_id ELSE "tool_call"
        start == [response_content |-> EmptyDict, image_data |-> << >>]
        scanned ==
          IF "error" \in DOMAIN block
          THEN [start EXCEPT !.response_content = [error |-> PyStr(block.error)]]
          ELSE IF "content" \in DOMAIN block /\ block.content.t = "list"
               THEN ScanContent(block.content.list, start)
               ELSE start
        response_content ==
          IF DOMAIN scanned.response_content = {}
          THEN [output |-> "Tool executed successfully"]
          ELSE scanned.response_content
    IN  [tool_use_id |-> tool_use_id,
         response_content |-> response_content,
         image_data |-> scanned.image_data]

\* a map that leaves out the ids of tool_use blocks whose name another
\* tool_use block of the message carries under another id
DegradingToolNameMap(content, tool_name_map) ==
    LET named == { i \in 1..Len(content) :
                     /\ Get(content[i], "type", "") = "tool_use"
                     /\ Get(content[i], "id", "") # ""
                     /\ Get(content[i], "name", "") # "" }
        last(id) == CHOOSE i \in named :
                      /\ content[i].id = id
                      /\ \A k \in named : content[k].id = id => k <= i
        shared(i) == \E k \in named : /\ content[k].name = content[i].name
                                       /\ content[k].id # content[i].id
        kept == { content[i].id : i \in { k \in named : ~shared(k) } }
    IN  [id \in (DOMAIN tool_name_map) \cup kept |->
           IF id \in kept THEN content[last(id)].name ELSE tool_name_map[id]]

\* _process_tool_result_messages, lines 206-218: tool_use id -> name of the
\* message before the run; a later block with the same id overwrites
RECURSIVE BuildToolNameMap(_, _)
BuildToolNameMap(content, tool_name_map) ==
    IF content = << >> THEN tool_name_map
    ELSE LET block == Head(content)
             tool_id == Get(block, "id", "")
             tool_name == Get(block, "name", "")
         IN  BuildToolNameMap(Tail(content),
                 IF Get(block, "type", "") = "tool_use"
                    /\ tool_id # "" /\ tool_name # ""
                 THEN DictSet(tool_name_map, tool_id, tool_name)
                 ELSE tool_name_map)

\* a lookup that walks back to the nearest assistant message with blocks
RECURSIVE NearestAssistantToolNameMap(_, _)
NearestAssistantToolNameMap(msgs, start_idx) ==
    IF start_idx <= 0 THEN EmptyDict
    ELSE IF Nth(msgs, start_idx - 1).role = "assistant"
            /\ Nth(msgs, start_idx - 1).content.t = "list"
    THEN BuildToolNameMap(Nth(msgs, start_idx - 1).content.list, EmptyDict)
    ELSE NearestAssistantToolNameMap(msgs, start_idx - 1)

ToolNameMap(msgs, start_idx) ==
    IF start_idx > 0
       /\ Nth(msgs, start_idx - 1).role = "assistant"
       /\ Nth(msgs, start_idx - 1).content.t = "list"
    THEN BuildToolNameMap(Nth(msgs, start_idx - 1).content.list, EmptyDict)
    ELSE EmptyDict

\* a scan that puts the image of a tool_result right after its
\* function_response instead of accumulating it
RECURSIVE ScanRunMessageInline(_, _, _)
ScanRunMessageInline(content, tool_name_map, acc) ==
    IF content = << >> THEN acc
    ELSE LET block == Head(content)
             r == _process_tool_result_block(block)
             tool_name == Get(tool_name_map, r.tool_use_id, r.tool_use_id)
         IN  ScanRunMessageInline(Tail(content), tool_name_map,
                 IF Get(block, "type", "") = "tool_result"
                 THEN [parts |-> Append(acc.parts,
                           [function_response |->
                              [name |-> tool_name, response |-> r.response_content]])
                           \o r.image_data,
                       accumulated_images |-> acc.accumulated_images,
                       has_tool_result |-> TRUE]
                 ELSE acc)

\* lines 230-253: the blocks of one message of the run;
\* acc = [parts, accumulated_images, has_tool_result]
RECURSIVE ScanRunMessage(_, _, _)
ScanRunMessage(content, tool_name_map, acc) ==
    IF content = << >> THEN acc
    ELSE LET block == Head(content)
             r == _process_tool_result_block(block)
             tool_name == Get(tool_name_map, r.tool_use_id, r.tool_use_id)
         IN  ScanRunMessage(Tail(content), tool_name_map,
                 IF Get(block, "type", "") = "tool_result"
                 THEN [parts |-> Append(acc.parts,
                           [function_response |->
                              [name |-> tool_name, response |-> r.response_content]]),
                       accumulated_images |-> acc.accumulated_images \o r.image_data,
                       has_tool_result |-> TRUE]
                 ELSE acc)

\* lines 220-257: the loop over the run, from current_idx
RECURSIVE ScanRun(_, _, _, _, _)
ScanRun(msgs, current_idx, tool_name_map, parts, accumulated_images) ==
    IF current_idx >= Len(msgs)
    THEN [parts |-> parts, accumulated_images |-> accumulated_images,
          current_idx |-> current_idx]
    ELSE LET current_msg == Nth(msgs, current_idx)
             stop == [parts |-> parts, accumulated_images |-> accumulated_images,
                      current_idx |-> current_idx]
         IN  IF current_msg.role # "user" \/ current_msg.content.t # "list"
             THEN stop
             ELSE LET m == ScanRunMessage(current_msg.content.list, tool_name_map,
                               [parts |-> parts,
                                accumulated_images |-> accumulated_images,
                                has_tool_result |-> FALSE])
                  IN  IF ~m.has_tool_result THEN stop
                      ELSE ScanRun(msgs, current_idx + 1, tool_name_map,
                                   m.parts, m.accumulated_images)

\* a conversion that does not fold: every message of a run is converted alone
ProcessOneToolResultMessage(msgs, start_idx) ==
    LET m == ScanRunMessage(Nth(msgs, start_idx).content.list,
                 ToolNameMap(msgs, start_idx),
                 [parts |-> << >>, accumulated_images |-> << >>,
                  has_tool_result |-> FALSE])
    IN  [parts |-> m.parts \o m.accumulated_images, next_idx |-> start_idx + 1]

\* a conversion that gives up, without consuming anything, on a first
\* message that mixes tool_result blocks with other blocks
RunOfPureResultMessages(msgs, start_idx) ==
    LET content == Nth(msgs, start_idx).content.list
        run == ScanRun(msgs, start_idx, ToolNameMap(msgs, start_idx), << >>, << >>)
    IN  IF \E i \in 1..Len(content) : Get(content[i], "type", "") # "tool_result"
        THEN [parts |-> << >>, next_idx |-> start_idx]
        ELSE [parts |-> run.parts \o run.accumulated_images,
              next_idx |-> run.current_idx]

\* _process_tool_result_messages: (parts, next index)
_process_tool_result_messages(msgs, start_idx) ==
    LET run == ScanRun(msgs, start_idx, ToolNameMap(msgs, start_idx), << >>, << >>)
    IN  [parts |-> run.parts \o run.accumulated_images,
         next_idx |-> run.current_idx]

\* line 67: any block of the content is a tool_result
has_tool_results(content) ==
    \E i \in 1..Len(content) : Get(content[i], "type", "") = "tool_result"

\* a mapping that passes the role through unless it is already 'model'
PassThroughRole(role) == IF role = "model" THEN "model" ELSE "user"

\* line 48
gemini_role(role) == IF role = "assistant" THEN "model" ELSE "user"

----------------------------------------------------------------------------
(* response_converter.py: the tool-call normalisation *)

\* lines 31-46 and 163-178
COMPUTER_ACTIONS ==
    { "screenshot", "left_click", "mouse_move", "type", "key", "scroll",
      "left_click_drag", "right_click", "middle_click", "double_click",
      "left_mouse_down", "left_mouse_up", "hold_key", "wait" }

\* d.pop(k) as far as the dict goes
DictDel(d, k) == [x \in (DOMAIN d) \ {k} |-> d[x]]

\* the characters of the strings int() and lower() are applied to
Chars(s) ==
    CASE s = "3" -> << "3" >>
      [] s = "12" -> << "1", "2" >>
      [] s = "-2" -> << "-", "2" >>
      [] s = " 4" -> << " ", "4" >>
      [] s = "abc" -> << "a", "b", "c" >>
      [] s = "" -> << >>
      [] OTHER -> << "?" >>

Digits == { "0", "1", "2", "3", "4", "5", "6", "7", "8", "9" }

DigitVal(c) ==
    CASE c = "0" -> 0 [] c = "1" -> 1 [] c = "2" -> 2 [] c = "3" -> 3
      [] c = "4" -> 4 [] c = "5" -> 5 [] c = "6" -> 6 [] c = "7" -> 7
      [] c = "8" -> 8 [] c = "9" -> 9

RECURSIVE Strip(_)
Strip(cs) ==
    IF cs # << >> /\ Head(cs) = " " THEN Strip(Tail(cs))
    ELSE IF cs # << >> /\ cs[Len(cs)] = " " THEN Strip(SubSeq(cs, 1, Len(cs) - 1))
    ELSE cs

RECURSIVE DigitsValue(_, _)
DigitsValue(cs, acc) ==
    IF cs = << >> THEN acc ELSE DigitsValue(Tail(cs), 10 * acc + DigitVal(Head(cs)))

\* int(x): [ok, int]; a ValueError or TypeError is ok = FALSE
PyInt(x) ==
    CASE x.t = "int" -> [ok |-> TRUE, int |-> x.int]
      [] x.t = "str" ->
           LET cs == Strip(Chars(x.str))
               neg == cs # << >> /\ Head(cs) = "-"
               ds == IF cs # << >> /\ Head(cs) \in {"-", "+"} THEN Tail(cs) ELSE cs
           IN  IF ds # << >> /\ \A i \in 1..Len(ds) : ds[i] \in Digits
               THEN [ok |-> TRUE,
                     int |-> IF neg THEN 0 - DigitsValue(ds, 0) ELSE DigitsValue(ds, 0)]
               ELSE [ok |-> FALSE, int |-> 0]
      [] OTHER -> [ok |-> FALSE, int |-> 0]

\* str.lower() on the strings of the model
Lower(s) ==
    CASE s = "UP" -> "up"
      [] s = "Down" -> "down"
      [] s = "Sideways" -> "sideways"
      [] OTHER -> s

\* hash(x) raises TypeError for a list and a dict
Unhashable(x) == x.t \in {"list", "dict"}

\* key_mapping_utils.normalize_key_combo
normalize_key_combo(s) ==
    CASE s = "Ctrl+C" -> "ctrl+c"
      [] s = "CTRL+ALT+DEL" -> "ctrl+alt+Delete"
      [] s = "Return" -> "Return"
      [] OTHER -> s

\* a normalisation that forgets to embed the action name
EmbedNothing(tool_name, tool_input) == tool_input

\* process_computer_tool, lines 49-51
EmbedAction(tool_name, tool_input) ==
    IF tool_name \in COMPUTER_ACTIONS
    THEN DictSet(tool_input, "action", StrV(tool_name))
    ELSE tool_input

\* lines 54-55
CoordinateTuple(tool_input) ==
    IF "coordinate" \in DOMAIN tool_input /\ tool_input.coordinate.t = "list"
    THEN DictSet(tool_input, "coordinate", TupleV(tool_input.coordinate.list))
    ELSE tool_input

\* lines 58-59
LegacyClick(tool_input) ==
    IF Get(tool_input, "action", NoneV) = StrV("click")
    THEN DictSet(tool_input, "action", StrV("left_click"))
    ELSE tool_input

\* lines 65-67
KeyToText(tool_input) ==
    IF "text" \notin DOMAIN tool_input /\ "key" \in DOMAIN tool_input
    THEN DictDel(DictSet(tool_input, "text", tool_input.key), "key")
    ELSE tool_input

\* lines 68-69
NormalizeText(tool_input) ==
    IF "text" \in DOMAIN tool_input /\ tool_input.text.t = "str"
    THEN DictSet(tool_input, "text", StrV(normalize_key_combo(tool_input.text.str)))
    ELSE tool_input

\* a coercion that replaces an amount it cannot convert by 0
ScrollAmountOrZero(tool_input) ==
    IF "scroll_amount" \in DOMAIN tool_input
    THEN DictSet(tool_input, "scroll_amount",
                 IntV(IF PyInt(tool_input.scroll_amount).ok
                      THEN PyInt(tool_input.scroll_amount).int ELSE 0))
    ELSE tool_input

\* lines 74-81
ScrollAmount(tool_input) ==
    IF "scroll_amount" \in DOMAIN tool_input /\ PyInt(tool_input.scroll_amount).ok
    THEN DictSet(tool_input, "scroll_amount", IntV(PyInt(tool_input.scroll_amount).int))
    ELSE tool_input

\* lines 83-88
ScrollDirection(tool_input) ==
    IF "scroll_direction" \in DOMAIN tool_input
    THEN DictSet(tool_input, "scroll_direction",
                 StrV(Lower(PyStr(tool_input.scroll_direction))))
    ELSE tool_input

\* lines 61-88, for a hashable action
ByAction(action, tool_input) ==
    IF action \in {StrV("key"), StrV("hold_key")}
    THEN NormalizeText(KeyToText(tool_input))
    ELSE IF action = StrV("scroll")
    THEN ScrollDirection(ScrollAmount(tool_input))
    ELSE tool_input

\* process_computer_tool: [raised, tool_input]; raised is the message of the
\* exception that leaves the function (line 64 hashes action), "" when it returns
process_computer_tool(tool_name, tool_input) ==
    LET aliased == LegacyClick(CoordinateTuple(EmbedAction(tool_name, tool_input)))
        action == Get(aliased, "action", NoneV)
    IN  IF Unhashable(action)
        THEN [raised |-> "unhashable type", tool_input |-> aliased]
        ELSE [raised |-> "",
              tool_input |-> DictSet(ByAction(action, aliased),
                                     "api_type", StrV("computer_20250124"))]

\* a wrapping that does not look for an existing data field
WrapWhenNamed(tool_input) ==
    IF "name" \in DOMAIN tool_input /\ "result" \in DOMAIN tool_input
    THEN [data |-> DictV([name |-> tool_input.name, result |-> tool_input.result])]
    ELSE tool_input

\* process_extraction_tool
process_extraction_tool(tool_input) ==
    IF "data" \notin DOMAIN tool_input
       /\ "name" \in DOMAIN tool_input /\ "result" \in DOMAIN tool_input
    THEN [data |-> DictV([name |-> tool_input.name, result |-> tool_input.result])]
    ELSE tool_input

\* convert_function_call: the tool_use block, or the text block of line 205
convert_function_call(function_call, call_id) ==
    LET tool_name == Get(function_call, "name", "")
        tool_input == Get(function_call, "args", EmptyDict)
        computer == process_computer_tool(tool_name, tool_input)
    IN  IF tool_name = "computer" \/ tool_name \in COMPUTER_ACTIONS
        THEN IF computer.raised # ""
             THEN [type |-> "text",
                   text |-> "Error processing function call " \o tool_name
                            \o ": " \o computer.raised]
             ELSE [type |-> "tool_use", id |-> call_id, name |-> "computer",
                   input |-> computer.tool_input]
        ELSE IF tool_name = "extraction"
        THEN [type |-> "tool_use", id |-> call_id, name |-> tool_name,
              input |-> process_extraction_tool(tool_input)]
        ELSE [type |-> "tool_use", id |-> call_id, name |-> tool_name,
              input |-> tool_input]

----------------------------------------------------------------------------
(* response_converter.py: convert_gemini_to_anthropic_response *)

\* lines 224-233
STOP_REASON_MAP ==
    "STOP" :> "end_turn" @@ "MAX_TOKENS" :> "max_tokens" @@ "SAFETY" :> "end_turn"
    @@ "RECITATION" :> "end_turn" @@ "OTHER" :> "end_turn"
    @@ "BLOCKLIST" :> "end_turn" @@ "PROHIBITED_CONTENT" :> "end_turn"
    @@ "SPII" :> "end_turn"

\* lines 249-254: the finish reason as a string
FinishReasonName(candidate) ==
    LET finish_reason == Get(candidate, "finish_reason", StrV("STOP"))
    IN  IF finish_reason.t = "enum" THEN finish_reason.name ELSE PyStr(finish_reason)

\* lines 262 and 296
MappedStopReason(finish_reason) == Get(STOP_REASON_MAP, finish_reason, "end_turn")

\* a decision that lets a finish signal other than STOP win over function calls
StopReasonByFinishFirst(count, finish_reason) ==
    IF count > 0 /\ finish_reason = "STOP" THEN "tool_use"
    ELSE MappedStopReason(finish_reason)

\* lines 293-296
StopReason(count, finish_reason) ==
    IF count > 0 THEN "tool_use" ELSE MappedStopReason(finish_reason)

\* an id without the zero padding
UnpaddedCallId(i) == "toolu_" \o ToString(i)

\* line 278: f'toolu_{idx:02d}'
CallId(i) == IF i < 10 THEN "toolu_0" \o ToString(i) ELSE "toolu_" \o ToString(i)

\* line 242
Candidates(resp) == Get(resp, "candidates", << >>)

\* lines 247-248, 265
Parts(resp) ==
    LET content == Get(Nth(Candidates(resp), 0), "content", NoneV)
    IN  IF content.t = "none" THEN << >> ELSE Get(content, "parts", << >>)

----------------------------------------------------------------------------
(* The conversations the conversion is run on *)

MaxMsgs == 3

\* the loop iterations followed on a conversation (more than MaxMsgs)
MaxIterations == 5

Text(s) == [type |-> "text", text |-> s]
ImgA == [type |-> "image",
         source |-> [type |-> "base64", media_type |-> "image/jpeg", data |-> "AAAA"]]
ImgB == [type |-> "image", source |-> [type |-> "base64", data |-> "BBBB"]]
ImgUrl == [type |-> "image", source |-> [type |-> "url", url |-> "http://x/y.png"]]
ToolUse(id, name) ==
    [type |-> "tool_use", id |-> id, name |-> name,
     input |-> [coordinate |-> <<10, 20>>]]
ToolResult(id, items) ==
    [type |-> "tool_result", tool_use_id |-> id, content |-> ListV(items)]

Contents ==
    { StrV("hello"),
      NoneV,
      ListV(<< ToolUse("t1", "left_click") >>),
      ListV(<< Text("go"), ToolUse("t1", "left_click"), ToolUse("t2", "left_click") >>),
      ListV(<< ToolUse("t2", "type"), ToolUse("t1", ""), ToolUse("t2", "key") >>),
      ListV(<< Text(""), ImgUrl >>),
      ListV(<< Text("look"), ImgB >>),
      ListV(<< ToolResult("t1", << Text("ok") >>) >>),
      ListV(<< ToolResult("t2", << Text("a"), ImgA, Text("b") >>) >>),
      ListV(<< ToolResult("t1", << ImgA >>), Text("note"),
               ToolResult("t3", << ImgB >>) >>),
      ListV(<< [type |-> "tool_result", error |-> IntV(500)] >>) }

Messages ==
    [role : {"user", "assistant"}, content : Contents]
    \cup [role : {"system"},
          content : { StrV("hello"), ListV(<< ToolResult("t1", << Text("ok") >>) >>) }]

Conversations == UNION { [1..n -> Messages] : n \in 0..MaxMsgs }

----------------------------------------------------------------------------
(* convert_anthropic_to_gemini_messages, one action per branch of the loop *)

Init ==
    /\ pc = "loop"
    /\ messages \in Conversations
    /\ msg_idx = 0
    /\ iterations = 0
    /\ gemini_messages = << >>
    /\ src_range = << >>
    /\ tr_block = Idle /\ tr_result = Idle
    /\ response = Idle /\ idx = Idle /\ content_blocks = Idle
    /\ function_call_count = Idle /\ stop_reason = Idle
    /\ fc = Idle /\ converted = Idle /\ reconverted = Idle

msg == Nth(messages, msg_idx)

InLoop == pc = "loop" /\ msg_idx < Len(messages)

\* lines 55-63
StringMessage ==
    /\ InLoop
    /\ msg.content.t = "str"
    /\ gemini_messages' = Append(gemini_messages,
           [role |-> gemini_role(msg.role), parts |-> << [text |-> msg.content.str] >>])
    /\ src_range' = Append(src_range, [from |-> msg_idx, to |-> msg_idx + 1])
    /\ msg_idx' = msg_idx + 1
    /\ iterations' = iterations + 1
    /\ UNCHANGED <<pc, messages, blockVars, respVars, normVars>>

\* lines 72-83
ToolResultRun ==
    /\ InLoop
    /\ msg.content.t = "list"
    /\ has_tool_results(msg.content.list) /\ msg.role = "user"
    /\ LET r == _process_tool_result_messages(messages, msg_idx)
       IN  /\ msg_idx' = r.next_idx
           /\ IF r.parts # << >>
              THEN /\ gemini_messages' = Append(gemini_messages,
                          [role |-> "user", parts |-> r.parts])
                   /\ src_range' = Append(src_range,
                          [from |-> msg_idx, to |-> r.next_idx])
              ELSE UNCHANGED <<gemini_messages, src_range>>
    /\ iterations' = iterations + 1
    /\ UNCHANGED <<pc, messages, blockVars, respVars, normVars>>

\* a regular-blocks branch that emits the message whatever its parts
RegularBlocksKeepEmpty ==
    /\ InLoop
    /\ msg.content.t = "list"
    /\ ~(has_tool_results(msg.content.list) /\ msg.role = "user")
    /\ gemini_messages' = Append(gemini_messages,
           [role |-> gemini_role(msg.role),
            parts |-> _convert_content_blocks(msg.content.list)])
    /\ src_range' = Append(src_range, [from |-> msg_idx, to |-> msg_idx + 1])
    /\ msg_idx' = msg_idx + 1
    /\ iterations' = iterations + 1
    /\ UNCHANGED <<pc, messages, blockVars, respVars, normVars>>

\* lines 84-94
RegularBlocks ==
    /\ InLoop
    /\ msg.content.t = "list"
    /\ ~(has_tool_results(msg.content.list) /\ msg.role = "user")
    /\ LET parts == _convert_content_blocks(msg.content.list)
       IN  IF parts # << >>
           THEN /\ gemini_messages' = Append(gemini_messages,
                       [role |-> gemini_role(msg.role), parts |-> parts])
                /\ src_range' = Append(src_range,
                       [from |-> msg_idx, to |-> msg_idx + 1])
           ELSE UNCHANGED <<gemini_messages, src_range>>
    /\ msg_idx' = msg_idx + 1
    /\ iterations' = iterations + 1
    /\ UNCHANGED <<pc, messages, blockVars, respVars, normVars>>

\* lines 42-65: neither isinstance test holds, so the iteration leaves the
\* cursor and the result alone and the while condition is tested again on the
\* same cursor; the iterations are counted up to MaxIterations
UnhandledContent ==
    /\ InLoop
    /\ msg.content.t \notin {"str", "list"}
    /\ iterations < MaxIterations
    /\ iterations' = iterations + 1
    /\ UNCHANGED <<pc, messages, msg_idx, gemini_messages, src_range,
                   blockVars, respVars, normVars>>

\* lines 42, 99
Return ==
    /\ pc = "loop" /\ msg_idx >= Len(messages)
    /\ pc' = "done"
    /\ UNCHANGED <<convVars, blockVars, respVars, normVars>>

Next == StringMessage \/ ToolResultRun \/ RegularBlocks \/ UnhandledContent \/ Return

Spec == Init /\ [][Next]_vars

\* one message for each way through the loop body and out of a tool-result
\* run: a string, blocks without a tool result, tool results mixed with
\* another block, a tool result of an assistant (no run), and a content that
\* is neither a string nor a list
ProgressMessages ==
    { [role |-> "user", content |-> StrV("hello")],
      [role |-> "user", content |-> ListV(<< Text("look"), ImgB >>)],
      [role |-> "user",
       content |-> ListV(<< ToolResult("t1", << ImgA >>), Text("note"),
                            ToolResult("t3", << ImgB >>) >>)],
      [role |-> "assistant",
       content |-> ListV(<< ToolResult("t1", << Text("ok") >>) >>)],
      [role |-> "user", content |-> NoneV] }

ProgressConversations == UNION { [1..n -> ProgressMessages] : n \in 0..MaxMsgs }

InitFair ==
    /\ pc = "loop"
    /\ messages \in ProgressConversations
    /\ msg_idx = 0
    /\ iterations = 0
    /\ gemini_messages = << >>
    /\ src_range = << >>
    /\ tr_block = Idle /\ tr_result = Idle
    /\ response = Idle /\ idx = Idle /\ content_blocks = Idle
    /\ function_call_count = Idle /\ stop_reason = Idle
    /\ fc = Idle /\ converted = Idle /\ reconverted = Idle

\* the conversion runs on its own thread of control: a step that can be taken
\* is taken
SpecFair == InitFair /\ [][Next]_vars /\ WF_vars(Next)

----------------------------------------------------------------------------
(* _process_tool_result_block run on one tool_result block *)

MaxItems == 2

Items == { Text("ok"), Text("more"), Text(""), ImgA, ImgB, ImgUrl }

ItemLists == UNION { [1..n -> Items] : n \in 0..MaxItems }

\* the optional keys of a tool_result block, each absent or with one of its values
WithKey(d, k, values) == {d} \cup { DictSet(d, k, v) : v \in values }

ToolResultBlocks ==
    UNION { UNION { UNION { WithKey(d3, "content",
                                {StrV("done")} \cup { ListV(l) : l \in ItemLists })
                            : d3 \in WithKey(d2, "is_error", {TRUE, FALSE}) }
                    : d2 \in WithKey(d1, "error", {StrV("boom"), IntV(500)}) }
            : d1 \in WithKey([type |-> "tool_result"], "tool_use_id", {"t1"}) }

InitToolResult ==
    /\ pc = "block"
    /\ tr_block \in ToolResultBlocks
    /\ tr_result = Idle
    /\ messages = Idle /\ msg_idx = Idle /\ iterations = Idle
    /\ gemini_messages = Idle /\ src_range = Idle
    /\ response = Idle /\ idx = Idle /\ content_blocks = Idle
    /\ function_call_count = Idle /\ stop_reason = Idle
    /\ fc = Idle /\ converted = Idle /\ reconverted = Idle

ProcessToolResultBlock ==
    /\ pc = "block"
    /\ tr_result' = _process_tool_result_block(tr_block)
    /\ pc' = "block_done"
    /\ UNCHANGED <<tr_block, convVars, respVars, normVars>>

NextToolResult == ProcessToolResultBlock

SpecToolResult == InitToolResult /\ [][NextToolResult]_vars

----------------------------------------------------------------------------
(* convert_function_call run on one function call, and again on its result *)

\* a key that is left out of a dict
Absent == [t |-> "absent"]

Present(r) == [k \in { x \in DOMAIN r : r[x] # Absent } |-> r[k]]

ComputerArgs ==
    { Present(r) : r \in
        [action : {Absent, StrV("click"), StrV("scroll"), StrV("key"), ListV(<<1>>)},
         coordinate : {Absent, ListV(<<10, 20>>)},
         key : {Absent, StrV("Ctrl+C")},
         text : {Absent, StrV("CTRL+ALT+DEL"), IntV(7)},
         scroll_amount : {Absent, IntV(3), StrV("12"), StrV("-2"), StrV(" 4"),
                          StrV("abc"), NoneV},
         scroll_direction : {Absent, StrV("UP"), StrV("Sideways")}] }

ExtractionArgs ==
    { Present(r) : r \in
        [name : {Absent, StrV("a")},
         result : {Absent, StrV("b")},
         note : {Absent, StrV("n")},
         data : {Absent, DictV([name |-> StrV("a"), result |-> StrV("b")]),
                 DictV([name |-> StrV("a")]), StrV("raw")}] }

FunctionNames == COMPUTER_ACTIONS \cup {"computer", "extraction", "click", "get_weather"}

FunctionCalls == [name : FunctionNames, args : ComputerArgs \cup ExtractionArgs]

InitNormalize ==
    /\ pc = "call"
    /\ fc \in FunctionCalls
    /\ converted = Idle /\ reconverted = Idle
    /\ messages = Idle /\ msg_idx = Idle /\ iterations = Idle
    /\ gemini_messages = Idle /\ src_range = Idle
    /\ tr_block = Idle /\ tr_result = Idle
    /\ response = Idle /\ idx = Idle /\ content_blocks = Idle
    /\ function_call_count = Idle /\ stop_reason = Idle

ConvertFunctionCall ==
    /\ pc = "call"
    /\ converted' = convert_function_call(fc, "toolu_00")
    /\ pc' = "converted"
    /\ UNCHANGED <<fc, reconverted, convVars, blockVars, respVars>>

\* the normalisation run again on the invocation it produced
Renormalize ==
    /\ pc = "converted"
    /\ converted.type = "tool_use"
    /\ reconverted' = convert_function_call(
           [name |-> converted.name, args |-> converted.input], converted.id)
    /\ pc' = "reconverted"
    /\ UNCHANGED <<fc, converted, convVars, blockVars, respVars>>

NextNormalize == ConvertFunctionCall \/ Renormalize

SpecNormalize == InitNormalize /\ [][NextNormalize]_vars

----------------------------------------------------------------------------
(* convert_gemini_to_anthropic_response run on one response, one action per
   exit and per iteration of the loop over the parts *)

MaxParts == 3

FunctionCall(name, args) == [name |-> name, args |-> args]

PartUniverse ==
    { [text |-> "hi"],
      [text |-> ""],
      [function_call |-> FunctionCall("left_click",
                             DictV([coordinate |-> ListV(<<10, 20>>)]))],
      [function_call |-> FunctionCall("screenshot", NoneV)],
      [function_call |-> FunctionCall("computer", DictV([action |-> ListV(<<1>>)]))],
      [text |-> "saving",
       function_call |-> FunctionCall("extraction",
                             DictV([name |-> StrV("a"), result |-> StrV("b")]))],
      [function_call |-> [name |-> "scroll"]] }

PartLists == UNION { [1..n -> PartUniverse] : n \in 0..MaxParts }

FinishReasons ==
    { [t |-> "enum", name |-> n] : n \in (DOMAIN STOP_REASON_MAP)
                                         \cup {"MALFORMED_FUNCTION_CALL"} }
    \cup { StrV("MAX_TOKENS") }

CandidateUniverse ==
    [finish_reason : FinishReasons,
     content : {NoneV} \cup { [t |-> "content", parts |-> ps] : ps \in PartLists }]
    \cup { [content |-> [t |-> "content", parts |-> ps]] : ps \in PartLists }

Responses ==
    { EmptyDict, [candidates |-> << >>] }
    \cup { [candidates |-> << c >>] : c \in CandidateUniverse }

InitResponse ==
    /\ pc = "start"
    /\ response \in Responses
    /\ idx = 0
    /\ content_blocks = << >>
    /\ function_call_count = 0
    /\ stop_reason = Idle
    /\ messages = Idle /\ msg_idx = Idle /\ iterations = Idle
    /\ gemini_messages = Idle /\ src_range = Idle
    /\ tr_block = Idle /\ tr_result = Idle
    /\ fc = Idle /\ converted = Idle /\ reconverted = Idle

\* lines 242-245
NoCandidates ==
    /\ pc = "start"
    /\ Candidates(response) = << >>
    /\ stop_reason' = "end_turn"
    /\ pc' = "returned"
    /\ UNCHANGED <<response, idx, content_blocks, function_call_count,
                   convVars, blockVars, normVars>>

\* lines 247-262
NoContent ==
    /\ pc = "start"
    /\ Candidates(response) # << >>
    /\ Get(Nth(Candidates(response), 0), "content", NoneV).t = "none"
    /\ stop_reason' = MappedStopReason(FinishReasonName(Nth(Candidates(response), 0)))
    /\ pc' = "returned"
    /\ UNCHANGED <<response, idx, content_blocks, function_call_count,
                   convVars, blockVars, normVars>>

\* lines 265-266
EnterParts ==
    /\ pc = "start"
    /\ Candidates(response) # << >>
    /\ Get(Nth(Candidates(response), 0), "content", NoneV).t # "none"
    /\ pc' = "parts"
    /\ UNCHANGED <<respVars, convVars, blockVars, normVars>>

part == Nth(Parts(response), idx)

\* lines 270-272
WithText(blocks, p) ==
    IF Get(p, "text", "") # ""
    THEN Append(blocks, [type |-> "text", text |-> p.text])
    ELSE blocks

\* line 284: dict(args) raises for a value that is no mapping
ArgsRaise(function_call) ==
    "args" \in DOMAIN function_call /\ function_call.args.t # "dict"

\* lines 268-290, an iteration that completes
ProcessPart ==
    /\ pc = "parts" /\ idx < Len(Parts(response))
    /\ IF "function_call" \in DOMAIN part
       THEN /\ ~ArgsRaise(part.function_call)
            /\ LET function_call == part.function_call
                   fc_dict == [name |-> Get(function_call, "name", ""),
                               args |-> IF "args" \in DOMAIN function_call
                                        THEN function_call.args.dict ELSE EmptyDict]
               IN  content_blocks' = Append(WithText(content_blocks, part),
                                            convert_function_call(fc_dict, CallId(idx)))
            /\ function_call_count' = function_call_count + 1
       ELSE /\ content_blocks' = WithText(content_blocks, part)
            /\ UNCHANGED function_call_count
    /\ idx' = idx + 1
    /\ UNCHANGED <<pc, response, stop_reason, convVars, blockVars, normVars>>

\* lines 282-285: the exception of dict(None) leaves the function
ArgsNotMapping ==
    /\ pc = "parts" /\ idx < Len(Parts(response))
    /\ "function_call" \in DOMAIN part
    /\ ArgsRaise(part.function_call)
    /\ pc' = "raised"
    /\ UNCHANGED <<respVars, convVars, blockVars, normVars>>

\* lines 292-302
ReturnBlocks ==
    /\ pc = "parts" /\ idx >= Len(Parts(response))
    /\ stop_reason' = StopReason(function_call_count,
                                 FinishReasonName(Nth(Candidates(response), 0)))
    /\ pc' = "returned"
    /\ UNCHANGED <<response, idx, content_blocks, function_call_count,
                   convVars, blockVars, normVars>>

NextResponse ==
    NoCandidates \/ NoContent \/ EnterParts \/ ProcessPart \/ ArgsNotMapping
    \/ ReturnBlocks

SpecResponse == InitResponse /\ [][NextResponse]_vars

----------------------------------------------------------------------------
(* Properties of convert_anthropic_to_gemini_messages (Spec) *)

\* the message is one of a tool-result run: a user message whose block
\* content holds a tool_result
IsToolResultMsg(m) ==
    /\ m.role = "user"
    /\ m.content.t = "list"
    /\ \E i \in 1..Len(m.content.list) : m.content.list[i].type = "tool_result"

IsToolResult(b) == b.type = "tool_result"

ToolResultsOf(m) == SelectSeq(m.content.list, IsToolResult)

\* the tool_result blocks of messages from..to-1, in order
RECURSIVE RunResults(_, _)
RunResults(from, to) ==
    IF from >= to THEN << >>
    ELSE ToolResultsOf(Nth(messages, from)) \o RunResults(from + 1, to)

\* the images extracted from these blocks, in order
RECURSIVE ExtractedImages(_)
ExtractedImages(results) ==
    IF results = << >> THEN << >>
    ELSE _process_tool_result_block(Head(results)).image_data
         \o ExtractedImages(Tail(results))

\* m holds exactly one tool_result, whose id is the id of a tool_use of a
OneMatchingResult(m, a) ==
    /\ IsToolResultMsg(m)
    /\ Len(ToolResultsOf(m)) = 1
    /\ \E i \in 1..Len(a.content.list) :
          /\ a.content.list[i].type = "tool_use"
          /\ "tool_use_id" \in DOMAIN ToolResultsOf(m)[1]
          /\ a.content.list[i].id = ToolResultsOf(m)[1].tool_use_id

\* the runs <<s, e>> of C1: message s-1 is an assistant message, messages
\* s..e each hold one matching tool_result, and the run ends with message e
FoldingRuns ==
    { se \in (1..Len(messages) - 1) \X (1..Len(messages) - 1) :
        /\ se[1] <= se[2]
        /\ Nth(messages, se[1] - 1).role = "assistant"
        /\ Nth(messages, se[1] - 1).content.t = "list"
        /\ \A k \in se[1]..se[2] :
              OneMatchingResult(Nth(messages, k), Nth(messages, se[1] - 1))
        /\ (se[2] + 1 = Len(messages) \/ ~IsToolResultMsg(Nth(messages, se[2] + 1))) }

\* output message j is the folding of the input messages s..e: N
\* function_response parts in the order of the messages, then the images
FoldedAs(j, s, e) ==
    LET parts == gemini_messages[j].parts
        results == RunResults(s, e + 1)
        images == ExtractedImages(results)
        N == e + 1 - s
    IN  /\ src_range[j] = [from |-> s, to |-> e + 1]
        /\ gemini_messages[j].role = "user"
        /\ Len(parts) = N + Len(images)
        /\ \A i \in 1..N :
              /\ DOMAIN parts[i] = {"function_response"}
              /\ parts[i].function_response.response =
                   _process_tool_result_block(results[i]).response_content
        /\ \A i \in 1..Len(images) : parts[N + i] = images[i]

\* C1: once the cursor has passed the first message of a run of N user
\* messages that each hold one matching tool_result and follow an assistant
\* message, the cursor is at or past the first message after the run and the
\* run has produced exactly one message, with role user, whose parts are the N
\* function_response parts in order followed by the extracted images
C1_ToolResultFolding ==
    pc \in {"loop", "done"} =>
      \A se \in FoldingRuns :
        msg_idx > se[1] =>
          /\ msg_idx > se[2]
          /\ \E j \in 1..Len(gemini_messages) :
                /\ FoldedAs(j, se[1], se[2])
                /\ \A k \in (1..Len(gemini_messages)) \ {j} :
                      src_range[k].to <= se[1] \/ src_range[k].from > se[2]

\* a run of two messages, one of them with an image, has been folded
C1_Witness ==
    /\ pc = "done"
    /\ \E se \in FoldingRuns :
          /\ se[2] = se[1] + 1
          /\ \E j \in 1..Len(gemini_messages) :
                FoldedAs(j, se[1], se[2]) /\ Len(gemini_messages[j].parts) = 3

IsToolUse(b) == b.type = "tool_use"

\* the tool_use blocks of the message before message `from`, when that
\* message is an assistant message with blocks
PrecedingToolUses(from) ==
    IF from > 0 /\ Nth(messages, from - 1).role = "assistant"
       /\ Nth(messages, from - 1).content.t = "list"
    THEN SelectSeq(Nth(messages, from - 1).content.list, IsToolUse)
    ELSE << >>

\* the output messages that come from a tool-result run
RunOutputs ==
    { j \in 1..Len(gemini_messages) : IsToolResultMsg(Nth(messages, src_range[j].from)) }

Max(S) == CHOOSE x \in S : \A y \in S : y <= x

\* the name C2 as written asks for: the name of a tool_use block of the
\* preceding message with the id of the tool_result, else that id (read as
\* line 159 reads it: 'tool_call' for a block without tool_use_id)
NameAsClaimed(b, from, name) ==
    LET uses == PrecedingToolUses(from)
        raw == IF Get(b, "tool_use_id", "") # "" THEN b.tool_use_id ELSE "tool_call"
        hits == { i \in 1..Len(uses) : uses[i].id = raw }
    IN  IF hits # {} THEN \E i \in hits : name = uses[i].name ELSE name = raw

\* the name the amended C2 asks for
NameAsAmended(b, from) ==
    LET uses == PrecedingToolUses(from)
        id == IF Get(b, "tool_use_id", "") # "" THEN b.tool_use_id ELSE "tool_call"
        hits == { i \in 1..Len(uses) : uses[i].id = id /\ uses[i].name # "" }
    IN  IF hits # {} THEN uses[Max(hits)].name ELSE id

\* C2 as written: every function_response of a run is named after the
\* tool_use block with the id of its tool_result in the message before the
\* run, and carries the raw tool_use_id when there is no such block
C2_CorrelationAsClaimed ==
    pc \in {"loop", "done"} =>
      \A j \in RunOutputs :
        LET results == RunResults(src_range[j].from, src_range[j].to)
        IN  \A i \in 1..Len(results) :
              NameAsClaimed(results[i], src_range[j].from,
                            gemini_messages[j].parts[i].function_response.name)

\* C2, amended: every function_response of a run carries the name of the last
\* tool_use block of the message immediately before the run (an assistant
\* message with blocks) that has the id of its tool_result and a non-empty
\* name; when there is none it carries the tool_use_id, or 'tool_call' when
\* the tool_result has no tool_use_id
C2_CorrelationLookup ==
    pc \in {"loop", "done"} =>
      \A j \in RunOutputs :
        LET results == RunResults(src_range[j].from, src_range[j].to)
        IN  \A i \in 1..Len(results) :
              /\ DOMAIN gemini_messages[j].parts[i] = {"function_response"}
              /\ gemini_messages[j].parts[i].function_response.name =
                   NameAsAmended(results[i], src_range[j].from)

\* a tool_result whose tool_use sits in an earlier assistant turn, not in the
\* message before the run, has been answered under its id
C2_Witness ==
    /\ pc = "done"
    /\ Len(messages) = 3
    /\ \E j \in RunOutputs :
          /\ src_range[j].from = 2
          /\ PrecedingToolUses(2) = << >>
          /\ \E i \in 1..Len(PrecedingToolUses(1)) :
                /\ PrecedingToolUses(1)[i].id = "t1"
                /\ PrecedingToolUses(1)[i].name = "left_click"
          /\ gemini_messages[j].parts[1].function_response.name = "t1"

\* C4: every emitted message has role model or user; it has role model when
\* it comes from an assistant message and role user when it comes from a
\* message of any other role
C4_RoleMapping ==
    pc \in {"loop", "done"} =>
      \A j \in 1..Len(gemini_messages) :
        /\ gemini_messages[j].role \in {"model", "user"}
        /\ \A k \in src_range[j].from .. src_range[j].to - 1 :
              gemini_messages[j].role = "model" <=> Nth(messages, k).role = "assistant"

\* an assistant, a system and a folded user message have all been emitted
C4_Witness ==
    /\ pc = "done"
    /\ \E j \in 1..Len(gemini_messages) :
          Nth(messages, src_range[j].from).role = "assistant"
          /\ gemini_messages[j].role = "model"
    /\ \E j \in 1..Len(gemini_messages) :
          Nth(messages, src_range[j].from).role = "system"
          /\ gemini_messages[j].role = "user"
    /\ \E j \in RunOutputs : gemini_messages[j].role = "user"

\* C9: the returned sequence never holds two adjacent messages of one role
C9_RoleAlternation ==
    pc = "done" =>
      \A j \in 1..Len(gemini_messages) - 1 :
        gemini_messages[j].role # gemini_messages[j + 1].role

----------------------------------------------------------------------------
(* Properties of convert_gemini_to_anthropic_response (SpecResponse) *)

HasFunctionCall(p) == "function_call" \in DOMAIN p

\* the number of parts of the first candidate that carry a function call
FunctionCallParts == { i \in 1..Len(Parts(response)) : HasFunctionCall(Parts(response)[i]) }

\* the finish signal of the first candidate, STOP when it has none
FinishSignal ==
    LET c == Nth(Candidates(response), 0)
    IN  IF "finish_reason" \notin DOMAIN c THEN "STOP"
        ELSE IF c.finish_reason.t = "enum" THEN c.finish_reason.name
        ELSE c.finish_reason.str

\* C3: a conversion of a response with a first candidate returns tool_use
\* when a part carries a function call, whatever the finish signal; without
\* function calls it returns max_tokens exactly for the signal MAX_TOKENS and
\* end_turn for every other signal; it returns nothing else
C3_StopReasonPrecedence ==
    (pc = "returned" /\ Candidates(response) # << >>) =>
      /\ stop_reason \in {"end_turn", "max_tokens", "tool_use"}
      /\ FunctionCallParts # {} => stop_reason = "tool_use"
      /\ FunctionCallParts = {} =>
            /\ stop_reason = "max_tokens" <=> FinishSignal = "MAX_TOKENS"
            /\ FinishSignal # "MAX_TOKENS" => stop_reason = "end_turn"

\* a response that ends on MAX_TOKENS and carries a function call returned
\* tool_use
C3_Witness ==
    /\ pc = "returned"
    /\ Candidates(response) # << >>
    /\ FunctionCallParts # {}
    /\ FinishSignal = "MAX_TOKENS"
    /\ stop_reason = "tool_use"

\* the block the claim C7 expects at the place of function call part i: a
\* tool_use block with the part's id, or one text block naming the function
IsolatedBlock(b, i) ==
    \/ b.type = "tool_use" /\ b.id = CallId(i)
    \/ b.type = "text"
       /\ b.text = "Error processing function call "
                   \o Get(Parts(response)[i + 1].function_call, "name", "")
                   \o ": unhashable type"

\* the blocks the parts before position n contribute, one per text and one
\* per function call
RECURSIVE BlocksBefore(_)
BlocksBefore(n) ==
    IF n = 0 THEN 0
    ELSE BlocksBefore(n - 1)
         + (IF Get(Parts(response)[n], "text", "") # "" THEN 1 ELSE 0)
         + (IF HasFunctionCall(Parts(response)[n]) THEN 1 ELSE 0)

\* C7: the conversion never raises, and when it returns, every function call
\* part has contributed exactly one block at its place, a tool_use block or a
\* text block naming the function
C7_FailureIsolation ==
    /\ pc # "raised"
    /\ (pc = "returned" /\ Candidates(response) # << >>) =>
          /\ Len(content_blocks) = BlocksBefore(Len(Parts(response)))
          /\ \A i \in FunctionCallParts :
                IsolatedBlock(content_blocks[BlocksBefore(i)], i - 1)

----------------------------------------------------------------------------
(* Properties of the tool-call normalisation (SpecNormalize) *)

Normalized == pc \in {"converted", "reconverted"}

\* C5: a function call named after a primitive action becomes a tool_use
\* block named computer whose input.action is the function name, and the
\* normalisation of that invocation returns the same name and input
C5_PrimitiveActionFolding ==
    (Normalized /\ fc.name \in COMPUTER_ACTIONS) =>
      /\ converted.type = "tool_use"
      /\ converted.name = "computer"
      /\ Get(converted.input, "action", NoneV) = StrV(fc.name)
      /\ pc = "reconverted" =>
            /\ reconverted.type = "tool_use"
            /\ reconverted.name = converted.name
            /\ reconverted.input = converted.input

\* left_click with no arguments has been folded and normalised again
C5_Witness ==
    /\ pc = "reconverted"
    /\ fc = [name |-> "left_click", args |-> EmptyDict]
    /\ converted.name = "computer"
    /\ converted.input.action = StrV("left_click")
    /\ reconverted = converted

\* C6: for the tool extraction, arguments without data and with name and
\* result become {data: {name, result}}, arguments with data are returned
\* unchanged, and the transform leaves its own output unchanged
C6_ExtractionWrapping ==
    (Normalized /\ fc.name = "extraction") =>
      /\ converted.type = "tool_use"
      /\ ("data" \notin DOMAIN fc.args /\ {"name", "result"} \subseteq DOMAIN fc.args) =>
            converted.input =
              [data |-> DictV([name |-> fc.args.name, result |-> fc.args.result])]
      /\ "data" \in DOMAIN fc.args => converted.input = fc.args
      /\ pc = "reconverted" =>
            reconverted.type = "tool_use" /\ reconverted.input = converted.input

\* {name: a, result: b, note: n} has been wrapped and transformed again
C6_Witness ==
    /\ pc = "reconverted"
    /\ fc.name = "extraction"
    /\ fc.args = [name |-> StrV("a"), result |-> StrV("b"), note |-> StrV("n")]
    /\ converted.input = [data |-> DictV([name |-> StrV("a"), result |-> StrV("b")])]
    /\ reconverted.input = converted.input

\* the function call is a scroll action: the function scroll, or the
\* function computer with action scroll
IsScroll(call) ==
    \/ call.name = "scroll"
    \/ call.name = "computer" /\ Get(call.args, "action", NoneV) = StrV("scroll")

\* the scroll_amount C8 expects: the integer for a value int() converts, the
\* value itself otherwise
ExpectedScrollAmount(x) ==
    CASE x = StrV("12") -> IntV(12)
      [] x = StrV("-2") -> IntV(0 - 2)
      [] x = StrV(" 4") -> IntV(4)
      [] OTHER -> x

\* C8: the normalisation of a scroll call with a scroll_amount returns a
\* tool_use block, not an error text, whose scroll_amount is the integer
\* when the value converts and the original value when it does not
C8_ScrollCoercion ==
    (Normalized /\ IsScroll(fc) /\ "scroll_amount" \in DOMAIN fc.args) =>
      /\ converted.type = "tool_use"
      /\ converted.input.scroll_amount = ExpectedScrollAmount(fc.args.scroll_amount)

\* scroll with scroll_amount 'abc' has been normalised
C8_Witness ==
    /\ pc = "converted"
    /\ fc.name = "scroll"
    /\ fc.args = [scroll_amount |-> StrV("abc")]
    /\ converted.type = "tool_use"
    /\ converted.input.scroll_amount = StrV("abc")

----------------------------------------------------------------------------
(* Properties of _process_tool_result_block (SpecToolResult) *)

\* C10: the response built for a tool_result whose is_error flag is true is
\* {error: ...}, with no output key, whatever its content
C10_ErrorResults ==
    (pc = "block_done" /\ Get(tr_block, "is_error", FALSE)) =>
      DOMAIN tr_result.response_content = {"error"}

\* the content items of a tool_result block, none when its content is no list
ContentItems(b) ==
    IF "content" \in DOMAIN b /\ b.content.t = "list" THEN b.content.list ELSE << >>

IsTextItem(item) == Get(item, "type", "") = "text"

\* an image item the conversion extracts: an image with a base64 source
IsExtractableImage(item) ==
    /\ Get(item, "type", "") = "image"
    /\ Get(Get(item, "source", EmptyDict), "type", "") = "base64"

\* the block is no error result: it has no error and its is_error is not set
NonErrorResult(b) == "error" \notin DOMAIN b /\ ~Get(b, "is_error", FALSE)

\* C11: for a tool_result that is no error, response.output is the string of
\* the first text item of its content, response.has_screenshot is set exactly
\* when an image was extracted, and the response is {output: 'Tool executed
\* successfully'} exactly when the content holds no text item and no
\* extractable image
C11_NonErrorResponse ==
    (pc = "block_done" /\ NonErrorResult(tr_block)) =>
      LET items == ContentItems(tr_block)
          texts == SelectSeq(items, IsTextItem)
          images == SelectSeq(items, IsExtractableImage)
          r == tr_result.response_content
      IN  /\ texts # << >> => Get(r, "output", "") = Get(texts[1], "text", "")
          /\ Get(r, "has_screenshot", FALSE) <=> tr_result.image_data # << >>
          /\ tr_result.image_data # << >> <=> images # << >>
          /\ r = [output |-> "Tool executed successfully"]
               <=> (texts = << >> /\ images = << >>)

----------------------------------------------------------------------------
(* Properties of the name lookup when tool uses share a name (Spec) *)

\* the tool_result b answers one of two or more tool_use blocks of the
\* message before message `from` that carry one name under distinct ids
AnswersSharedName(b, from) ==
    LET uses == PrecedingToolUses(from)
    IN  \E i, k \in 1..Len(uses) :
          /\ uses[i].name = uses[k].name
          /\ uses[i].id # uses[k].id
          /\ Get(b, "tool_use_id", "") = uses[i].id

\* the non-empty name that the only tool_use block with the id of b carries,
\* and that another tool_use block of the message before `from` carries too
SharedNames(b, from) ==
    LET uses == PrecedingToolUses(from)
    IN  { uses[i].name : i \in
            { i \in 1..Len(uses) :
                /\ uses[i].name # ""
                /\ Get(b, "tool_use_id", "") = uses[i].id
                /\ \A k \in (1..Len(uses)) \ {i} : uses[k].id # uses[i].id
                /\ \E k \in 1..Len(uses) : uses[k].name = uses[i].name /\ k # i } }

\* C12 as written: the function_response of a tool_result that answers one of
\* several tool_use blocks with one name carries the tool_use id as its name
C12_SameNameDegradation ==
    pc \in {"loop", "done"} =>
      \A j \in RunOutputs :
        LET results == RunResults(src_range[j].from, src_range[j].to)
        IN  \A i \in 1..Len(results) :
              AnswersSharedName(results[i], src_range[j].from) =>
                gemini_messages[j].parts[i].function_response.name
                  = Get(results[i], "tool_use_id", "")

\* C12, amended: the function_response of a tool_result that answers one of
\* several tool_use blocks carrying one non-empty name under distinct ids
\* carries that shared name, not the tool_use id
C12_SharedNameCarried ==
    pc \in {"loop", "done"} =>
      \A j \in RunOutputs :
        LET results == RunResults(src_range[j].from, src_range[j].to)
        IN  \A i \in 1..Len(results) :
              \A name \in SharedNames(results[i], src_range[j].from) :
                /\ gemini_messages[j].parts[i].function_response.name = name
                /\ name # Get(results[i], "tool_use_id", "")

\* the results of t1 and of t2, both used as left_click in the turn before,
\* have been folded into one message with two responses named left_click
C12_Witness ==
    /\ pc = "done"
    /\ \E j \in RunOutputs :
          LET results == RunResults(src_range[j].from, src_range[j].to)
          IN  /\ Len(results) = 2
              /\ Get(results[1], "tool_use_id", "") = "t1"
              /\ Get(results[2], "tool_use_id", "") = "t2"
              /\ SharedNames(results[1], src_range[j].from) = {"left_click"}
              /\ SharedNames(results[2], src_range[j].from) = {"left_click"}
              /\ gemini_messages[j].parts[1].function_response.name = "left_click"
              /\ gemini_messages[j].parts[2].function_response.name = "left_click"

----------------------------------------------------------------------------
(* Properties of the cursor loop (Spec) *)

\* the content of the message at the cursor is neither a string nor a list
MalformedAtCursor == InLoop /\ msg.content.t \notin {"str", "list"}

\* C13: a loop iteration on a message whose content is neither a string nor
\* a block sequence ends the conversion with an error; no step taken there
\* leaves the conversion in its loop
C13_MalformedContentRaises ==
    [][MalformedAtCursor => pc' = "raised"]_vars

\* every message of the input has string or block-sequence content
ValidInput ==
    \A k \in 1..Len(messages) : messages[k].content.t \in {"str", "list"}

\* C14: on an input whose messages all have string or block-sequence
\* content, every loop iteration (the tool-result branch with its call of
\* _process_tool_result_messages included) moves the cursor to a strictly
\* greater index that is at most the input length, the iterations never
\* outnumber the cursor, and the conversion returns (the input never changes,
\* so ValidInput holds of a whole behaviour or of none of it)
C14_CursorProgress ==
    /\ [][(ValidInput /\ iterations' # iterations) =>
            (msg_idx' > msg_idx /\ msg_idx' <= Len(messages))]_vars
    /\ [](ValidInput => (iterations <= msg_idx /\ msg_idx <= Len(messages)))
    /\ <>(ValidInput => pc = "done")

\* a run of two tool-result messages has moved the cursor by two in one
\* iteration, and the conversion has returned
C14_Witness ==
    /\ pc = "done"
    /\ ValidInput
    /\ Len(messages) = 3
    /\ iterations = 2
    /\ \E j \in RunOutputs : src_range[j].to = src_range[j].from + 2

----------------------------------------------------------------------------
(* Properties of the parts of a folded tool-result message (Spec) *)

\* the inline_data part of an image item
InlineDataOf(item) ==
    [inline_data |-> [mime_type |-> Get(item.source, "media_type", "image/png"),
                      data |-> Get(item.source, "data", "")]]

\* the image a tool_result block contributes, as a sequence of at most one
\* part: the last extractable image of the content list of a block without
\* the key error
ImageOf(b) ==
    LET items == IF "error" \in DOMAIN b THEN << >> ELSE ContentItems(b)
        at == { i \in 1..Len(items) : IsExtractableImage(items[i]) }
    IN  IF at = {} THEN << >> ELSE << InlineDataOf(items[Max(at)]) >>

\* the images of these tool_result blocks, in the order of the blocks
RECURSIVE ImagesInOrder(_)
ImagesInOrder(results) ==
    IF results = << >> THEN << >>
    ELSE ImageOf(Head(results)) \o ImagesInOrder(Tail(results))

\* C15: in every message emitted for a tool-result run, every part is a
\* function_response or an inline_data part, the function_response parts (one
\* per tool_result block of the run) come first, and the inline_data parts
\* follow in the order in which their tool_result blocks occur in the run
C15_PartLayout ==
    pc \in {"loop", "done"} =>
      \A j \in RunOutputs :
        LET parts == gemini_messages[j].parts
            results == RunResults(src_range[j].from, src_range[j].to)
            images == ImagesInOrder(results)
            N == Len(results)
        IN  /\ \A i \in 1..Len(parts) :
                 DOMAIN parts[i] \in {{"function_response"}, {"inline_data"}}
            /\ Len(parts) = N + Len(images)
            /\ \A i \in 1..N : DOMAIN parts[i] = {"function_response"}
            /\ \A i \in 1..Len(images) : parts[N + i] = images[i]

\* a run of two messages with three tool_result blocks has been folded into
\* three function_response parts followed by their images AAAA, AAAA, BBBB
C15_Witness ==
    /\ pc = "done"
    /\ \E j \in RunOutputs :
          LET parts == gemini_messages[j].parts
          IN  /\ src_range[j].to = src_range[j].from + 2
              /\ Len(parts) = 6
              /\ \A i \in 1..3 : DOMAIN parts[i] = {"function_response"}
              /\ parts[4].inline_data.data = "AAAA"
              /\ parts[5].inline_data.data = "AAAA"
              /\ parts[6].inline_data.data = "BBBB"

----------------------------------------------------------------------------
(* Properties of the order and number of the emitted messages (Spec) *)

\* the input indices no emitted message comes from
Dropped ==
    { k \in 0..msg_idx - 1 :
        \A j \in 1..Len(src_range) : k < src_range[j].from \/ k >= src_range[j].to }

\* C16: every emitted message comes from a non-empty contiguous range of
\* input messages before the cursor, one message or one run of tool-result
\* messages; the ranges are disjoint and increase along the output, so the
\* output is no longer than the input; a string message is emitted as its
\* text and never dropped; no emitted message has an empty parts list
C16_OrderAndLength ==
    pc \in {"loop", "done"} =>
      /\ Len(src_range) = Len(gemini_messages)
      /\ Len(gemini_messages) <= msg_idx
      /\ msg_idx <= Len(messages)
      /\ \A j \in 1..Len(gemini_messages) :
            /\ 0 <= src_range[j].from
            /\ src_range[j].from < src_range[j].to
            /\ src_range[j].to <= msg_idx
            /\ \/ src_range[j].to = src_range[j].from + 1
               \/ \A k \in src_range[j].from .. src_range[j].to - 1 :
                     IsToolResultMsg(Nth(messages, k))
            /\ j < Len(gemini_messages) => src_range[j].to <= src_range[j + 1].from
            /\ gemini_messages[j].parts # << >>
            /\ Nth(messages, src_range[j].from).content.t = "str" =>
                  gemini_messages[j].parts =
                    << [text |-> Nth(messages, src_range[j].from).content.str] >>
      /\ \A k \in Dropped : Nth(messages, k).content.t = "list"

\* of three messages the first, whose blocks convert to nothing, has been
\* dropped and the other two, a tool-result run, have become one message
C16_Witness ==
    /\ pc = "done"
    /\ Len(messages) = 3
    /\ Dropped = {0}
    /\ Len(gemini_messages) = 1
    /\ src_range[1] = [from |-> 1, to |-> 3]

----------------------------------------------------------------------------
(* Properties of the tool-call identifiers (SpecResponse) *)

\* the parts are being converted, or the conversion of the parts has ended
PartsEntered == pc \in {"parts", "returned", "raised"} /\ Candidates(response) # << >>

\* the function call parts converted so far, as 1-based positions
ConvertedCalls == { i \in FunctionCallParts : i <= idx }

\* 'toolu_' followed by the 0-based position i, zero-padded to width 2
PaddedId(i) == "toolu_" \o (IF i < 10 THEN "0" ELSE "") \o ToString(i)

ToolUseBlocks == { k \in 1..Len(content_blocks) : content_blocks[k].type = "tool_use" }

\* C17: every tool_use block of a conversion is the block of a function call
\* part and has the id toolu_ followed by the 0-based position of that part
\* among all parts, zero-padded to width 2 (so the ids are a function of the
\* part sequence alone), and no two tool_use blocks have the same id
C17_CallIds ==
    PartsEntered =>
      /\ \A k \in ToolUseBlocks :
            \E i \in ConvertedCalls :
              BlocksBefore(i) = k /\ content_blocks[k].id = PaddedId(i - 1)
      /\ \A i \in ConvertedCalls :
            content_blocks[BlocksBefore(i)].type = "tool_use" =>
              content_blocks[BlocksBefore(i)].id = PaddedId(i - 1)
      /\ \A k, l \in ToolUseBlocks :
            k # l => content_blocks[k].id # content_blocks[l].id

\* a response whose parts are a text and two function calls has returned the
\* tool_use blocks toolu_01 and toolu_02, and none with the id toolu_00
C17_Witness ==
    /\ pc = "returned"
    /\ Candidates(response) # << >>
    /\ Len(Parts(response)) = 3
    /\ ~HasFunctionCall(Parts(response)[1])
    /\ Len(content_blocks) = 3
    /\ ToolUseBlocks = {2, 3}
    /\ content_blocks[2].id = "toolu_01"
    /\ content_blocks[3].id = "toolu_02"

----------------------------------------------------------------------------
(* Properties of the returned stop reason (SpecResponse) *)

\* C18: a conversion returns the stop reason tool_use exactly when the
\* blocks it returns hold a tool_use block
C18_StopReasonAgreesWithBlocks ==
    pc = "returned" => (stop_reason = "tool_use" <=> ToolUseBlocks # {})

====
